---- MODULE Spec2Model ----
(***************************************************************************)
(* slsim/lensed_population_base.py: the abstract base class                *)
(* LensedPopulationBase.  The state is the one population object a caller  *)
(* holds (or none) and the outcome of the most recent operation; the       *)
(* operations are instantiation (the abstract-class check followed by      *)
(* __init__), a method call on the object, an explicit call of one of the  *)
(* base-class method bodies, and an attribute assignment.                  *)
(***************************************************************************)
EXTENDS Integers, Sequences, FiniteSets, TLC

VARIABLES pop, last

vars == <<pop, last>>

---------------------------------------------------------------------------
(* Python values.  Every value is a record tagged with its type, so that   *)
(* None, numbers, strings, arrays and objects can be compared.             *)

PyNone == [type |-> "NoneType"]
Str(s) == [type |-> "str", s |-> s]
Num(n) == [type |-> "int", n |-> n]
Arr(q) == [type |-> "array", items |-> q]
\* an astropy Quantity: value in tenths, with its unit
Quantity(v, u) == [type |-> "Quantity", value |-> v, unit |-> u]
\* an astropy FlatLambdaCDM instance; id is the object's identity, Om0 is in tenths
FlatLambdaCDM(i, h, om) == [type |-> "FlatLambdaCDM", id |-> i, H0 |-> h, Om0 |-> om]

\* the parameters of FlatLambdaCDM(H0=70, Om0=0.3)
H0Default == 70
Om0Default == 3

\* the message of the warning of __init__
NoCosmoWarning == "No cosmology provided, instead uses flat LCDM with default parameters"

\* the largest count an overriding method of a subclass returns in the model
MaxCount == 2
\* the number of cosmology objects the caller owns
NumCallerCosmos == 2

---------------------------------------------------------------------------
(* The caller's inputs.                                                    *)

\* the cosmologies a caller can pass: the first has the default model's
\* parameters (it is equal to the default, yet another object)
CallerCosmos ==
    { FlatLambdaCDM(i, IF i = 1 THEN H0Default ELSE H0Default - i, Om0Default)
        : i \in 1..NumCallerCosmos }

SkyAreas == {PyNone, Quantity(1, "deg2"), Quantity(0, "deg2"), Num(0), Num(-1)}
Cosmos == {PyNone} \cup CallerCosmos
LightcurveTimes == {PyNone, Arr(<<0, 10>>)}
SnTypes == {PyNone, Str("Ia"), Str("not-a-type")}
SnBands == {PyNone, Str("bessellb")}
SnZpsys == {PyNone, Str("Vega")}
SnModeldirs == {PyNone, Str("/no/such/dir")}

\* the keyword arguments of __init__
Args ==
    [sky_area : SkyAreas, cosmo : Cosmos, lightcurve_time : LightcurveTimes,
     sn_type : SnTypes, sn_absolute_mag_band : SnBands,
     sn_absolute_zpsys : SnZpsys, sn_modeldir : SnModeldirs]

OptionalFields ==
    {"lightcurve_time", "sn_type", "sn_absolute_mag_band", "sn_absolute_zpsys",
     "sn_modeldir"}
Fields == {"sky_area", "cosmo"} \cup OptionalFields

\* the values an attribute assignment can store in a field
FieldValues(name) ==
    CASE name = "sky_area" -> SkyAreas
      [] name = "cosmo" -> Cosmos
      [] name = "lightcurve_time" -> LightcurveTimes
      [] name = "sn_type" -> SnTypes
      [] name = "sn_absolute_mag_band" -> SnBands
      [] name = "sn_absolute_zpsys" -> SnZpsys
      [] OTHER -> SnModeldirs

---------------------------------------------------------------------------
(* Classes.                                                                *)

\* the methods the base class defines
Methods ==
    {"select_lens_at_random", "deflector_number", "source_number", "draw_population"}

\* as if draw_population had lost its @abstractmethod decorator
AbstractDecls_Undecorated == Methods \ {"draw_population"}

\* those of them it declares with @abstractmethod: all four
AbstractDecls == Methods

\* LensedPopulationBase itself, and a subclass for every set of methods it overrides
BaseClass == [name |-> "LensedPopulationBase", overrides |-> {}]
SubClass(S) == [name |-> "Subclass", overrides |-> S]
Classes == {BaseClass} \cup {SubClass(S) : S \in SUBSET Methods}

\* where the attribute lookup of method m on an instance of cls ends
Resolve(cls, m) == IF m \in cls.overrides THEN "override" ELSE "base"

\* as if no method counted as abstract
AbstractMethods_NoneLeft(cls) == {}

\* __abstractmethods__ of cls as ABCMeta computes it: the names that still
\* resolve to a function declared with @abstractmethod
AbstractMethods(cls) == {m \in AbstractDecls : Resolve(cls, m) = "base"}

\* what an overriding method of a subclass returns
OverrideResults == {Num(n) : n \in 0..MaxCount}

---------------------------------------------------------------------------
(* Objects and the execution of __init__.                                  *)

\* the caller holds no population object
NoObject == [type |-> "unbound"]
\* an object without attributes
NoAttrs == [n \in {} |-> PyNone]
\* no exception is propagating
NoExc == "none"

\* self.name = v: a plain instance attribute, created or overwritten
SetAttribute(self, name, v) == (name :> v) @@ self

\* the events a call leaves behind, in order
EvSet(name, v) == [ev |-> "setattr", name |-> name, value |-> v]
EvWarn(msg) == [ev |-> "warn", msg |-> msg]
EvNew(obj) == [ev |-> "new", obj |-> obj]
EvRaise(exc) == [ev |-> "raise", exc |-> exc]

\* the frame of __init__ on entry: self has no attribute yet, the local
\* variable cosmo holds the argument
EnterInit(args) ==
    [self |-> NoAttrs, cosmo |-> args.cosmo, raised |-> NoExc, trace |-> <<>>]

\* one assignment self.name = v of __init__
Assign(f, name, v) ==
    [f EXCEPT !.self = SetAttribute(@, name, v), !.trace = Append(@, EvSet(name, v))]

\* as if sn_absolute_zpsys fell back to "AB", the default its docstring names
StoreOptional_ABDefault(f, args) ==
    LET f1 == Assign(f, "lightcurve_time", args.lightcurve_time)
        f2 == Assign(f1, "sn_type", args.sn_type)
        f3 == Assign(f2, "sn_absolute_mag_band", args.sn_absolute_mag_band)
        f4 == Assign(f3, "sn_absolute_zpsys",
                     IF args.sn_absolute_zpsys = PyNone THEN Str("AB")
                     ELSE args.sn_absolute_zpsys)
    IN  Assign(f4, "sn_modeldir", args.sn_modeldir)

\* lines 47-51: the five optional arguments are stored as they are
StoreOptional(f, args) ==
    LET f1 == Assign(f, "lightcurve_time", args.lightcurve_time)
        f2 == Assign(f1, "sn_type", args.sn_type)
        f3 == Assign(f2, "sn_absolute_mag_band", args.sn_absolute_mag_band)
        f4 == Assign(f3, "sn_absolute_zpsys", args.sn_absolute_zpsys)
    IN  Assign(f4, "sn_modeldir", args.sn_modeldir)

\* as if line 53, the commented-out default sky area, were live
CheckSkyArea_DefaultArea(f, args) ==
    Assign(f, "sky_area",
           IF args.sky_area = PyNone THEN Quantity(1, "deg2") ELSE args.sky_area)

\* as if a sky area that is not a positive quantity were rejected as well
CheckSkyArea_PositiveOnly(f, args) ==
    IF args.sky_area = PyNone \/ args.sky_area.type # "Quantity" \/ args.sky_area.value <= 0
    THEN [f EXCEPT !.raised = "ValueError", !.trace = Append(@, EvRaise("ValueError"))]
    ELSE Assign(f, "sky_area", args.sky_area)

\* lines 52-55: a missing sky area raises ValueError, any other is stored
CheckSkyArea(f, args) ==
    IF args.sky_area = PyNone
    THEN [f EXCEPT !.raised = "ValueError", !.trace = Append(@, EvRaise("ValueError"))]
    ELSE Assign(f, "sky_area", args.sky_area)

\* the identity of an object allocated during __init__: none of the caller's
FreshId == NumCallerCosmos + 1

\* as if the default model were built with other parameters
NewDefaultCosmo_Planck == FlatLambdaCDM(FreshId, 67, Om0Default)

\* line 63: FlatLambdaCDM(H0=70, Om0=0.3), a new object
NewDefaultCosmo == FlatLambdaCDM(FreshId, H0Default, Om0Default)

\* as if the argument were stored without the fallback
CosmoFallback_StoreArg(f) == Assign(f, "cosmo", f.cosmo)

\* as if a copy of the cosmology passed in were stored
CosmoFallback_Copy(f) ==
    LET g == IF f.cosmo = PyNone
             THEN [f EXCEPT !.trace = @ \o <<EvWarn(NoCosmoWarning), EvNew(NewDefaultCosmo)>>,
                            !.cosmo = NewDefaultCosmo]
             ELSE [f EXCEPT !.cosmo = [@ EXCEPT !.id = FreshId]]
    IN  Assign(g, "cosmo", g.cosmo)

\* lines 57-64: a missing cosmology is warned about and replaced by the
\* default model; the local variable cosmo is then stored
CosmoFallback(f) ==
    LET g == IF f.cosmo = PyNone
             THEN [f EXCEPT !.trace = @ \o <<EvWarn(NoCosmoWarning), EvNew(NewDefaultCosmo)>>,
                            !.cosmo = NewDefaultCosmo]
             ELSE f
    IN  Assign(g, "cosmo", g.cosmo)

\* as if the cosmology fallback came before the sky-area check
__init__FallbackFirst(args) ==
    LET f1 == StoreOptional(EnterInit(args), args)
        f2 == CosmoFallback(f1)
    IN  CheckSkyArea(f2, args)

\* lines 47-64: the body of __init__; a raised exception ends it
__init__(args) ==
    LET f1 == StoreOptional(EnterInit(args), args)
        f2 == CheckSkyArea(f1, args)
    IN  IF f2.raised # NoExc THEN f2 ELSE CosmoFallback(f2)

\* cls(**args): an abstract class raises TypeError before __init__ runs;
\* otherwise __init__ runs and the object is returned unless it raised
Construct(cls, args) ==
    IF AbstractMethods(cls) # {}
    THEN [op |-> "init", cls |-> cls, args |-> args, outcome |-> "TypeError",
          result |-> PyNone, trace |-> <<EvRaise("TypeError")>>]
    ELSE LET f == __init__(args)
         IN  [op |-> "init", cls |-> cls, args |-> args,
              outcome |-> IF f.raised = NoExc THEN "ok" ELSE f.raised,
              result |-> IF f.raised = NoExc
                         THEN [type |-> "object", cls |-> cls, attrs |-> f.self]
                         ELSE PyNone,
              trace |-> f.trace]

\* as if a method body reset the sky area
BaseBody_ClearsSkyArea(self, m) ==
    [self |-> SetAttribute(self, "sky_area", PyNone), value |-> PyNone]

\* lines 66-105: the body of each of the four methods is `pass`: it leaves
\* self alone and returns None
BaseBody(self, m) == [self |-> self, value |-> PyNone]

---------------------------------------------------------------------------
(* The operations.                                                         *)

Init ==
    /\ pop = NoObject
    /\ last = [op |-> "none"]

\* pop = cls(**args), the first statement of the caller's run: an exception
\* it raises propagates and ends the run
Instantiate ==
    /\ pop = NoObject
    /\ last.op = "none"
    /\ \E cls \in Classes, args \in Args :
          LET r == Construct(cls, args)
          IN  /\ last' = r
              /\ pop' = IF r.outcome = "ok" THEN r.result ELSE pop

\* pop.m(): the lookup ends in the subclass's override, whose result is the
\* subclass's business, or in the base class's body
CallMethod(m) ==
    /\ pop # NoObject
    /\ IF Resolve(pop.cls, m) = "override"
       THEN /\ \E v \in OverrideResults :
                 last' = [op |-> "call", method |-> m, resolved |-> "override",
                          outcome |-> "returned", value |-> v]
            /\ UNCHANGED pop
       ELSE LET r == BaseBody(pop.attrs, m)
            IN  /\ last' = [op |-> "call", method |-> m, resolved |-> "base",
                            outcome |-> "returned", value |-> r.value]
                /\ pop' = [pop EXCEPT !.attrs = r.self]

\* LensedPopulationBase.m(pop), or super().m() inside an override: the base
\* class's body runs on the object
CallBase(m) ==
    /\ pop # NoObject
    /\ LET r == BaseBody(pop.attrs, m)
       IN  /\ last' = [op |-> "basecall", method |-> m, resolved |-> "base",
                       outcome |-> "returned", value |-> r.value]
           /\ pop' = [pop EXCEPT !.attrs = r.self]

\* pop.name = v, by the caller or inside a subclass's method
SetAttr(name, v) ==
    /\ pop # NoObject
    /\ pop' = [pop EXCEPT !.attrs = SetAttribute(@, name, v)]
    /\ last' = [op |-> "setattr", name |-> name, value |-> v, outcome |-> "ok"]

\* the operations the class itself defines
NextOwn ==
    \/ Instantiate
    \/ \E m \in Methods : CallMethod(m)
    \/ \E m \in Methods : CallBase(m)

Next ==
    \/ Instantiate
    \/ \E m \in Methods : CallMethod(m)
    \/ \E m \in Methods : CallBase(m)
    \/ \E name \in Fields : \E v \in FieldValues(name) : SetAttr(name, v)

\* the class's operations and the attribute assignments of its users
Spec == Init /\ [][Next]_vars

\* the class's own operations alone
SpecOwn == Init /\ [][NextOwn]_vars

---------------------------------------------------------------------------
(* Properties.                                                             *)

\* the last operation was an instantiation of a class that overrides all
\* four methods, so that __init__ was entered
InitEntered == last.op = "init" /\ last.cls.overrides = Methods

\* the events of one kind in the trace of the last operation
EventsOf(kind) == {i \in DOMAIN last.trace : last.trace[i].ev = kind}

\* C1: whatever the other six arguments are, __init__ entered with sky_area
\* None raises ValueError and the caller gets no object.
C1_MissingSkyAreaFails ==
    (InitEntered /\ last.args.sky_area = PyNone)
        => /\ last.outcome = "ValueError"
           /\ last.result = PyNone
           /\ pop = NoObject

\* C1 happens with all six other arguments supplied
C1_Witness ==
    /\ InitEntered
    /\ last.args.sky_area = PyNone
    /\ last.args.cosmo # PyNone
    /\ \A n \in OptionalFields : last.args[n] # PyNone
    /\ last.outcome = "ValueError"

\* C2: with a sky area and no cosmology, construction succeeds, exactly one
\* warning is emitted, and the stored cosmology is the flat model with
\* H0 = 70 and Om0 = 0.3.
C2_DefaultCosmology ==
    (InitEntered /\ last.args.sky_area # PyNone /\ last.args.cosmo = PyNone)
        => /\ last.outcome = "ok"
           /\ pop = last.result
           /\ Cardinality(EventsOf("warn")) = 1
           /\ pop.attrs.cosmo.type = "FlatLambdaCDM"
           /\ pop.attrs.cosmo.H0 = 70
           /\ pop.attrs.cosmo.Om0 = 3

\* C2 happens: an object built without a cosmology, after one warning
C2_Witness ==
    /\ InitEntered
    /\ last.args.sky_area = Quantity(1, "deg2")
    /\ last.args.cosmo = PyNone
    /\ pop # NoObject
    /\ EventsOf("warn") # {}

\* C3: with a sky area and a cosmology, construction succeeds without a
\* warning and the stored cosmology is the object passed in: the same
\* identity, and no cosmology was allocated.
C3_CosmologyIdentity ==
    (InitEntered /\ last.args.sky_area # PyNone /\ last.args.cosmo # PyNone)
        => /\ last.outcome = "ok"
           /\ pop = last.result
           /\ EventsOf("warn") = {}
           /\ EventsOf("new") = {}
           /\ pop.attrs.cosmo = last.args.cosmo
           /\ pop.attrs.cosmo.id = last.args.cosmo.id

\* C3 happens with a cosmology whose parameters are those of the default
C3_Witness ==
    /\ InitEntered
    /\ last.outcome = "ok"
    /\ last.args.cosmo # PyNone
    /\ last.args.cosmo.H0 = 70
    /\ last.args.cosmo.Om0 = 3
    /\ pop.attrs.cosmo.id = last.args.cosmo.id

C5_AbstractBodiesRaise ==
    /\ (last.op = "init" /\ last.cls = BaseClass)
          => (last.outcome = "TypeError" /\ pop = NoObject)
    /\ (last.op \in {"call", "basecall"} /\ last.resolved = "base")
          => last.outcome = "raised"

\* C5 as amended: instantiating the base class raises TypeError before
\* __init__ runs and yields no object; the four abstract bodies themselves
\* raise nothing: invoked explicitly on an object they return None.
C5_BaseNotInstantiable ==
    /\ (last.op = "init" /\ last.cls = BaseClass)
          => /\ last.outcome = "TypeError"
             /\ last.result = PyNone
             /\ pop = NoObject
             /\ EventsOf("setattr") = {}
    /\ last.op = "basecall"
          => /\ last.outcome = "returned"
             /\ last.value = PyNone

\* C5 happens: the base class instantiated with arguments __init__ accepts
C5_Witness ==
    /\ last.op = "init"
    /\ last.cls = BaseClass
    /\ last.args.sky_area # PyNone
    /\ last.outcome = "TypeError"

C7_FieldsNeverChange == [][pop # NoObject => pop' = pop]_vars

\* C7 as amended: the operations of the class leave the fields of an
\* existing object alone; a field changes only by an attribute assignment,
\* which succeeds and changes the assigned field and no other.
C7_OnlyAssignmentChanges ==
    [][pop # NoObject
         => /\ pop' # pop
                => /\ last'.op = "setattr"
                   /\ pop' = [pop EXCEPT !.attrs[last'.name] = last'.value]
            /\ last'.op = "setattr"
                => pop'.attrs[last'.name] = last'.value]_vars

\* C7 happens: an assignment has replaced the sky area of an object by None
C7_Witness ==
    /\ pop # NoObject
    /\ last.op = "setattr"
    /\ last.name = "sky_area"
    /\ last.value = PyNone
    /\ pop.attrs.sky_area = PyNone

\* C8: instantiation fails for every class that leaves some of the four
\* methods without an override, so every object's class overrides all four,
\* and a method call on an object never ends in a body of the base class.
C8_OverridesRequired ==
    /\ (last.op = "init" /\ last.cls.overrides # Methods)
          => (last.outcome = "TypeError" /\ last.result = PyNone /\ pop = NoObject)
    /\ pop # NoObject => pop.cls.overrides = Methods
    /\ last.op = "call" => last.resolved = "override"

\* C8 happens: a subclass that overrides three of the four is instantiated
C8_Witness ==
    /\ last.op = "init"
    /\ last.cls = SubClass(Methods \ {"draw_population"})
    /\ last.args.sky_area # PyNone
    /\ last.outcome = "TypeError"

\* C9: with neither sky area nor cosmology, __init__ raises ValueError having
\* neither warned nor built the default cosmology; in every instantiation a
\* warning or an allocation comes after the sky area was stored.
C9_SkyAreaCheckedFirst ==
    /\ (InitEntered /\ last.args.sky_area = PyNone /\ last.args.cosmo = PyNone)
          => /\ last.outcome = "ValueError"
             /\ EventsOf("warn") = {}
             /\ EventsOf("new") = {}
    /\ last.op = "init"
          => \A i \in EventsOf("warn") \cup EventsOf("new") :
                /\ last.args.sky_area # PyNone
                /\ \E j \in 1..(i - 1) :
                      last.trace[j] = EvSet("sky_area", last.args.sky_area)

\* C9 happens: __init__ entered with neither sky area nor cosmology
C9_Witness ==
    /\ InitEntered
    /\ last.args.sky_area = PyNone
    /\ last.args.cosmo = PyNone
    /\ last.outcome = "ValueError"

\* C10: every sky area other than None is accepted, and stored as passed.
C10_SkyAreaVerbatim ==
    (InitEntered /\ last.args.sky_area # PyNone)
        => /\ last.outcome = "ok"
           /\ pop = last.result
           /\ pop.attrs.sky_area = last.args.sky_area

\* C10 happens with a negative sky area without a unit
C10_Witness ==
    /\ InitEntered
    /\ last.args.sky_area = Num(-1)
    /\ last.outcome = "ok"
    /\ pop.attrs.sky_area = Num(-1)

====
